---- MODULE Spec2Model ----
(***************************************************************************)
(* Control panel of the inverted-pendulum robot: supervision of the        *)
(* companion processes by logical name, the joystick throttle and the      *)
(* shared event log numbers.txt, as implemented by the two Flask           *)
(* applications testweb.py and Webserver.py.                               *)
(*                                                                         *)
(* Both applications are served by Flask's development server, which       *)
(* handles each request on a thread of its own; the module globals are     *)
(* shared by the handlers without any lock.  A handler is modelled as a    *)
(* thread with a program counter; one step is one access to shared state   *)
(* (a module global, the process table of the OS, the file numbers.txt).   *)
(*                                                                         *)
(* Time is counted in hundredths of a second.                              *)
(***************************************************************************)
EXTENDS Integers, Sequences, FiniteSets, TLC

\* ------------------------------------------------------------------ bounds

\* Number of OS processes the server may create in one run; once reached,
\* Popen raises (the process table is full).
MaxProcs == 2

\* Number of records numbers.txt can hold; once reached, a write raises
\* (the disk is full) and log_to_file swallows the error.
MaxLog == 2

\* Wall-clock reading when the server starts, in hundredths of a second.
StartTime == 100

\* Number of calls the handlers take on in one run.
MaxCalls == 3

\* Time the clock runs past StartTime, in hundredths of a second.
MaxTime == 26

\* ------------------------------------------------------------- constants

\* PROGRAMS of testweb.py: the logical names with a script.
PROGRAMS == {"imu", "motortest", "ml", "autonav"}

\* The names Webserver.py has start/stop functions for.
WS_NAMES == {"imu", "motortest"}

\* A name that is no key of PROGRAMS.
UnknownName == "bogus"

\* joystick_throttle_interval = 0.25 s.
joystick_throttle_interval == 25

\* The two request-handler threads.
Handlers == {1, 2}

\* Joystick axis inputs, in hundredths (x in [-1, 1.2], y in [-1, 1]).
JoyX == {-100, 1204}
JoyY == {0}

None == 0

VARIABLES
    app,                 \* which application runs: "testweb" or "Webserver"
    PROGRAM_PROCS,       \* testweb.py: name -> handle (pid) or None
    imu_proc,            \* Webserver.py: handle of the IMU process or None
    motor_test_proc,     \* Webserver.py: handle of the motor test or None
    procs,               \* OS process table: pid -> [name, alive]
    log,                 \* numbers.txt: the sequence of records written
    dropped,             \* records removed by the last truncation of numbers.txt
    last_joystick_send,  \* time of the last logged joystick command
    now,                 \* wall clock
    current_time,        \* handler -> time.time() read by its direction_ajax
    pc,                  \* handler -> position in the handler's code
    call,                \* handler -> the operation it runs (or ran last)
    proc,                \* handler -> local handle (Popen result / proc)
    sig,                 \* handler -> outcome of os.killpg in this call
    ret,                 \* handler -> value returned by the last call
    calls,               \* handler -> number of calls it has taken on so far
    sent,                \* joystick commands handled so far: time and whether logged
    sensor_data,         \* sensor_data.txt: its state and its first line
    read,                \* what open() and readline() gave the last poll
    snapshot             \* body of the last /sensor_feed response

vars == <<app, PROGRAM_PROCS, imu_proc, motor_test_proc, procs, log, dropped,
          last_joystick_send, now, current_time, pc, call, proc, sig, ret, calls,
          sent, sensor_data, read, snapshot>>

handles == <<PROGRAM_PROCS, imu_proc, motor_test_proc>>
clock == <<last_joystick_send, now, current_time>>
telemetry == <<sensor_data, read, snapshot>>

\* ------------------------------------------------------------- event log

Rec(tag, msg, name) == [tag |-> tag, msg |-> msg, name |-> name, x |-> 0, y |-> 0]

\* f"{v:.2f}" of a float given in thousandths: the nearest hundredth, with
\* two decimals and the sign of v (the inputs used have no rounding ties).
f2(v) ==
    LET a == IF v < 0 THEN -v ELSE v
        h == (a + 5) \div 10
    IN  (IF v < 0 THEN "-" ELSE "") \o ToString(h \div 100) \o "."
          \o ToString((h % 100) \div 10) \o ToString(h % 10)

\* msg = f"Joystick x={x:.2f}, y={y:.2f}"
joystick_msg(x, y) == "Joystick x=" \o f2(x) \o ", y=" \o f2(y)

JoyRec(x, y) == Rec("JOYSTICK", joystick_msg(x, y), "-")

\* log_to_file with the file opened in mode "w": the record replaces the file.
log_to_file_mode_w(l, rec) ==
    IF Len(l) < MaxLog THEN <<rec>> ELSE l

\* log_to_file(tag, message): open numbers.txt in append mode and write one
\* record at its end; an exception (here: the disk is full) is caught and
\* printed, and the file is then unchanged.
log_to_file(l, rec) ==
    IF Len(l) < MaxLog THEN Append(l, rec) ELSE l

\* ------------------------------------------------------------- processes

Pids == 1..MaxProcs

\* proc.poll() is None: the process has not exited.
poll_is_None(p) == procs[p].alive

\* PROGRAM_PROCS.get(name)
PROGRAM_PROCS_get(name) ==
    IF name \in DOMAIN PROGRAM_PROCS THEN PROGRAM_PROCS[name] ELSE None

\* is_program_running without the poll: a recorded handle counts as running.
is_program_running_no_poll(name) ==
    PROGRAM_PROCS_get(name) # None

\* is_program_running(name) of testweb.py
is_program_running(name) ==
    LET p == PROGRAM_PROCS_get(name) IN p # None /\ poll_is_None(p)

\* The global Webserver.py keeps for a name.
WS_proc(name) == IF name = "imu" THEN imu_proc ELSE motor_test_proc

\* is_imu_running() / is_motor_test_running() of Webserver.py
WS_is_running(name) ==
    LET p == WS_proc(name) IN p # None /\ poll_is_None(p)

\* subprocess.Popen([...], preexec_fn=os.setsid): the process table after a
\* successful spawn; the new process leads a session of its own.
Popen(name) == Append(procs, [name |-> name, alive |-> TRUE])

\* Popen can succeed only while the OS can create a process.
CanSpawn == Len(procs) < MaxProcs

\* os.killpg(os.getpgid(p), SIGTERM) delivered: the group of p ends (the
\* scripts install no SIGTERM handler; delivery and exit are one step).
killpg(p) == [procs EXCEPT ![p].alive = FALSE]

\* --------------------------------------------------------- handler frame

Idle(t) == pc[t] = "idle"

\* A handler starts running operation op on name.
Enter(t, op, name, x, y) ==
    /\ Idle(t)
    /\ calls[1] + calls[2] < MaxCalls
    /\ calls' = [calls EXCEPT ![t] = calls[t] + 1]
    /\ call' = [call EXCEPT ![t] = [op |-> op, name |-> name, x |-> x, y |-> y]]

\* The handler returns v to its caller.
Return(t, v) ==
    /\ pc' = [pc EXCEPT ![t] = "idle"]
    /\ ret' = [ret EXCEPT ![t] = v]

Goto(t, l) == pc' = [pc EXCEPT ![t] = l]

Bool(b) == IF b THEN "True" ELSE "False"

\* ------------------------------------------------------ telemetry record

\* A line of sensor_data.txt is taken as split already: tokens is the part
\* before the first "|" split on "," with each piece stripped, and ultra is
\* the part after it as its "Ultrasonic <side>: <val> cm" pieces.

\* The empty line: "".split(",") is [""], and there is no "|" part.
EmptyLine == [tokens |-> <<"">>, ultra |-> <<>>]

\* The two programs expect the labels of different versions of the IMU
\* script; a line is written in the labels of one of them.
Dialects == {"testweb", "Webserver"}

\* imu1_map / imu2_map of testweb.py: label in the line -> field written.
imu1_map ==
    ("Forward/backwards Tilt in rad/s" :> "Forward/backwards Tilt") @@
    ("Side-to-Side tilt in rad/s" :> "Side-to-Side Tilt") @@
    ("Yaw in rad/s" :> "Yaw") @@
    ("Pitch Rate in rad/s" :> "Pitch Rate") @@
    ("Roll Rate in rad/s" :> "Roll Rate") @@
    ("Rotational Velocity in rad/s" :> "Rotational Velocity")

imu2_map ==
    ("Tilt in rad/s" :> "Forward/backwards Tilt") @@
    ("Side-to-Side tilt in rad/s" :> "Side-to-Side Tilt") @@
    ("Yaw in rad/s" :> "Yaw") @@
    ("Pitch Rate in rad/s" :> "Pitch Rate") @@
    ("Roll Rate in rad/s" :> "Roll Rate") @@
    ("Rotational Velocity in rad/s" :> "Rotational Velocity")

\* imu_fields of Webserver.py: the labels it expects, in order.
imu_fields ==
    <<"Forward/backwards Tilt", "Side-to-Side Tilt", "Yaw",
      "Pitch Rate", "Roll Rate", "Rotational Velocity">>

\* The labels of the six IMU pairs as the script writes them, in order.
Imu1Labels(d) ==
    IF d = "Webserver" THEN imu_fields
    ELSE <<"Forward/backwards Tilt in rad/s", "Side-to-Side tilt in rad/s",
           "Yaw in rad/s", "Pitch Rate in rad/s", "Roll Rate in rad/s",
           "Rotational Velocity in rad/s">>

Imu2Labels(d) ==
    IF d = "Webserver" THEN imu_fields
    ELSE <<"Tilt in rad/s">> \o SubSeq(Imu1Labels(d), 2, 6)

\* label, v, label, v, ... for the first n labels.
RECURSIVE Pairs(_, _, _)
Pairs(labels, v, n) ==
    IF n = 0 THEN <<>> ELSE Pairs(labels, v, n - 1) \o <<labels[n], v>>

\* The groups of a line, in the order the script writes them.
Groups == <<"Time", "IMU1", "IMU2", "IMU1Linear", "Extra", "EncoderL", "EncoderR">>

\* The tokens of group g in dialect d, with n label/value pairs in an IMU
\* group.  The older script writes no auxiliary values and no "Direction"
\* label.
GroupTokens(d, g, n) ==
    CASE g = "Time" -> <<"18:22:42">>
      [] g = "IMU1" -> <<"IMU1">> \o Pairs(Imu1Labels(d), "1.23456", n)
      [] g = "IMU2" -> <<"IMU2">> \o Pairs(Imu2Labels(d), "0.01234", n)
      [] g = "IMU1Linear" ->
            <<"IMU1 Linear Velocity", "-0.5678",
              IF d = "Webserver" THEN "IMU1's X-Velocity" ELSE "IMU1's X-velocity", "-0.5678",
              IF d = "Webserver" THEN "IMU1's Y-Velocity" ELSE "IMU1's Y-velocity", "-0.5678">>
      [] g = "Extra" ->
            IF d = "Webserver" THEN <<>>
            ELSE <<"Robot Yaw Rate", "0.0000", "Pendulum Angular Velocity", "0.0000",
                   "Pendulum Angle", "0.0000", "Pendulum Angle (deg)", "0.0000">>
      [] g = "EncoderL" ->
            IF d = "Webserver" THEN <<"EncoderL", "3.96", "forward">>
            ELSE <<"EncoderL", "3.96", "Direction", "forward">>
      [] g = "EncoderR" ->
            IF d = "Webserver" THEN <<"EncoderR", "0.0000", "stopped">>
            ELSE <<"EncoderR", "0.0000", "Direction", "stopped">>

\* The tokens of the first k groups, leaving out the groups in the set out.
RECURSIVE MainTokens(_, _, _)
MainTokens(d, out, k) ==
    IF k = 0 THEN <<>>
    ELSE MainTokens(d, out, k - 1)
           \o (IF Groups[k] \in out THEN <<>> ELSE GroupTokens(d, Groups[k], 6))

\* The trailing parts the script writes: both readings, or no trailing part.
Ultras ==
    { <<>>,
      <<[side |-> "Right", val |-> "99.4"], [side |-> "Left", val |-> "---"]>> }

\* The line of dialect d without the groups in out, with trailing part u.
Line(d, out, u) == [tokens |-> MainTokens(d, out, Len(Groups)), ultra |-> u]

\* The numbers the script writes in the lines above.
Numbers == {"1.23456", "0.01234", "-0.5678", "0.0000", "3.96", "99.4"}

\* The tokens T with "abc" in the place of every number.
NotNumbers(T) == [i \in DOMAIN T |-> IF T[i] \in Numbers THEN "abc" ELSE T[i]]

\* Tokens with a label but no value, an unknown label, a value that is not
\* a number, pairs without their group marker, a lone marker, and the whole
\* line of either dialect with no value a number.
SpecialLines ==
    { EmptyLine,
      [tokens |-> NotNumbers(MainTokens("testweb", {}, Len(Groups))), ultra |-> <<>>],
      [tokens |-> NotNumbers(MainTokens("Webserver", {}, Len(Groups))), ultra |-> <<>>],
      [tokens |-> <<"18:22:42", "IMU1", "Yaw in rad/s">>, ultra |-> <<>>],
      [tokens |-> <<"18:22:42", "IMU1", "Yaw">>, ultra |-> <<>>],
      [tokens |-> <<"IMU1", "Yaw in rad/s", "abc", "Bogus", "1.23456",
                    "Pitch Rate in rad/s", "1.23456">>, ultra |-> <<>>],
      [tokens |-> <<"IMU1">> \o Pairs(imu_fields, "abc", 6), ultra |-> <<>>],
      [tokens |-> GroupTokens("testweb", "IMU1", 6)
                    \o Tail(GroupTokens("testweb", "IMU2", 6))
                    \o GroupTokens("testweb", "IMU1Linear", 6), ultra |-> <<>>],
      [tokens |-> <<"EncoderL">>, ultra |-> <<>>],
      [tokens |-> <<"EncoderR", "abc", "Direction">>,
       ultra |-> <<[side |-> "Left", val |-> "abc"], [side |-> "Front", val |-> "99.4"]>>] }

\* Every group present, or exactly one group left out.
Outs == {{}} \cup {{Groups[k]} : k \in DOMAIN Groups}

Lines == {Line(d, out, u) : d \in Dialects, out \in Outs, u \in Ultras} \cup SpecialLines

\* What open("sensor_data.txt") and readline() can meet.
Files ==
    {[state |-> st, line |-> EmptyLine] : st \in {"missing", "unreadable"}}
      \cup {[state |-> "text", line |-> l] : l \in Lines}

\* ultrasonic_part as text, pieces joined as the script writes them.
RECURSIVE ultra_text(_)
ultra_text(u) ==
    IF u = <<>> THEN ""
    ELSE "Ultrasonic " \o Head(u).side \o ": " \o Head(u).val \o " cm"
           \o (IF Len(u) > 1 THEN "   " ELSE "") \o ultra_text(Tail(u))

\* float(val) for the numbers the lines carry, in units of 0.00001; float()
\* raises ValueError on every other token used here.
float ==
    ("1.23456" :> 123456) @@ ("0.01234" :> 1234) @@ ("-0.5678" :> -56780) @@
    ("0.0000" :> 0) @@ ("3.96" :> 396000) @@ ("99.4" :> 9940000)

\* 10^n
RECURSIVE Pow10(_)
Pow10(n) == IF n = 0 THEN 1 ELSE 10 * Pow10(n - 1)

\* The number of decimal digits of a > 0.
RECURSIVE Digits(_)
Digits(a) == IF a < 10 THEN 1 ELSE 1 + Digits(a \div 10)

\* The last n decimal digits of a, with leading zeros.
RECURSIVE LastDigits(_, _)
LastDigits(a, n) ==
    IF n = 0 THEN "" ELSE LastDigits(a \div 10, n - 1) \o ToString(a % 10)

\* The two-significant-figure policy of the specification, on v > 0 given
\* in units of 0.00001: v rounded to its two leading digits, written with
\* the decimals those two digits need (the numbers used have no ties).
sig2(v) ==
    LET n == Digits(v)
        p == IF n > 2 THEN Pow10(n - 2) ELSE 1
        r == ((v + p \div 2) \div p) * p
        d == IF n > 6 THEN 0 ELSE IF n > 2 THEN 7 - n ELSE 5
    IN  ToString(r \div 100000)
          \o (IF d = 0 THEN "" ELSE "." \o LastDigits((r % 100000) \div Pow10(5 - d), d))

\* Decoding a token under the two-significant-figure policy.
fmt_sig2(val) ==
    IF val \in DOMAIN float /\ float[val] > 0 THEN sig2(float[val]) ELSE val

\* f"{v:.2f}" in place of f"{v:.1f}": two decimals.
f1_two_decimals(v) ==
    LET a == IF v < 0 THEN -v ELSE v
        h == (a + 500) \div 1000
    IN  (IF v < 0 THEN "-" ELSE "") \o ToString(h \div 100) \o "."
          \o ToString((h % 100) \div 10) \o ToString(h % 10)

\* f"{v:.1f}" of v given in units of 0.00001: the nearest tenth, with one
\* decimal and the sign of v (the numbers used have no rounding ties).
f1(v) ==
    LET a == IF v < 0 THEN -v ELSE v
        t == (a + 5000) \div 10000
    IN  (IF v < 0 THEN "-" ELSE "") \o ToString(t \div 10) \o "." \o ToString(t % 10)

\* fmt of testweb.py with "nan" for a token that is not a number.
fmt_nan(val) ==
    IF val \in DOMAIN float THEN f1(float[val]) ELSE "nan"

\* fmt of testweb.py that drops a token that is not a number.
fmt_drop(val) ==
    IF val \in DOMAIN float THEN f1(float[val]) ELSE ""

\* fmt(val) of testweb.py: one decimal, or val itself when float() raises.
fmt(val) ==
    IF val \in DOMAIN float THEN f1(float[val]) ELSE val

\* The fields of a section of result.
result_fields(sec) ==
    CASE sec = "IMU1" -> {"Time"} \cup {imu_fields[k] : k \in DOMAIN imu_fields}
      [] sec = "IMU2" -> {imu_fields[k] : k \in DOMAIN imu_fields}
      [] sec = "IMU1Linear" -> {"Linear Velocity", "X velocity", "Y velocity"}
      [] sec = "Extra" -> {"Robot Yaw Rate", "Pendulum Angular Velocity", "Pendulum Angle",
                           "Pendulum Angle Deg", "Ultrasonic Right", "Ultrasonic Left"}
      [] sec \in {"EncoderL", "EncoderR"} -> {"Speed", "Direction"}

\* The sections of result in program a: Webserver.py has no "Extra".
result_sections(a) ==
    {"IMU1", "IMU2", "IMU1Linear", "EncoderL", "EncoderR"}
      \cup (IF a = "testweb" THEN {"Extra"} ELSE {})

\* result with "---" in every field.
result_dashes(a) ==
    [sec \in result_sections(a) |-> [f \in result_fields(sec) |-> "---"]]

\* result = {...}: every field of every section is "".
result(a) ==
    [sec \in result_sections(a) |-> [f \in result_fields(sec) |-> ""]]

\* An assignment that also drops the fields of the section that are empty.
Put_compact(res, sec, field, v) ==
    [res EXCEPT ![sec] =
        [f \in {g \in DOMAIN @ : g = field \/ @[g] # ""} |-> IF f = field THEN v ELSE @[f]]]

\* result[sec][field] = v
Put(res, sec, field, v) == [res EXCEPT ![sec][field] = v]

\* The tokens that end with the text after a "|": Webserver.py splits the
\* whole line on ",".
merge(tok, u) == tok \o " | " \o ultra_text(u)

\* ":" in tok: the time of day, and (every trailing part has a ":") the
\* tokens that carry a trailing part.
has_colon(tok) ==
    \/ tok = "18:22:42"
    \/ \E l \in Lines : l.ultra # <<>> /\ tok = merge(l.tokens[Len(l.tokens)], l.ultra)

\* The cursor idx (counted from 0 as in the code) with the result so far.
\* tokens[idx] of the code is tokens[idx + 1] here.
Cursor(idx, res) == [idx |-> idx, res |-> res]

\* if idx < len(tokens) and ":" in tokens[idx]: Time = tokens[idx]; idx += 1
read_time(tokens, st) ==
    IF st.idx < Len(tokens) /\ has_colon(tokens[st.idx + 1])
      THEN Cursor(st.idx + 1, Put(st.res, "IMU1", "Time", tokens[st.idx + 1]))
      ELSE st

\* testweb.py: while idx + 1 < len(tokens) and tokens[idx] in imu_map: ...
RECURSIVE TW_imu_while(_, _, _, _)
TW_imu_while(tokens, st, sec, map) ==
    IF st.idx + 1 < Len(tokens) /\ tokens[st.idx + 1] \in DOMAIN map
      THEN TW_imu_while(tokens,
               Cursor(st.idx + 2,
                      Put(st.res, sec, map[tokens[st.idx + 1]], fmt(tokens[st.idx + 2]))),
               sec, map)
      ELSE st

\* An IMU group that looks for its marker again from the start of the line.
TW_imu_group_rewind(tokens, st, marker, sec, map) ==
    IF st.idx < Len(tokens) /\ tokens[st.idx + 1] = marker
      THEN TW_imu_while(tokens, Cursor(st.idx + 1, st.res), sec, map)
      ELSE Cursor(0, st.res)

\* testweb.py: if idx < len(tokens) and tokens[idx] == marker: idx += 1; while
TW_imu_group(tokens, st, marker, sec, map) ==
    IF st.idx < Len(tokens) /\ tokens[st.idx + 1] = marker
      THEN TW_imu_while(tokens, Cursor(st.idx + 1, st.res), sec, map)
      ELSE st

\* testweb.py: a label followed by one value.
TW_value(tokens, st, label, sec, field) ==
    IF st.idx < Len(tokens) /\ tokens[st.idx + 1] = label
      THEN IF st.idx + 1 < Len(tokens)
             THEN Cursor(st.idx + 2, Put(st.res, sec, field, fmt(tokens[st.idx + 2])))
             ELSE Cursor(st.idx + 1, st.res)
      ELSE st

\* testweb.py: "Direction" followed by the direction, after the speed.
TW_direction(tokens, st, sec) ==
    IF st.idx < Len(tokens) /\ tokens[st.idx + 1] = "Direction"
      THEN IF st.idx + 1 < Len(tokens)
             THEN Cursor(st.idx + 2, Put(st.res, sec, "Direction", tokens[st.idx + 2]))
             ELSE Cursor(st.idx + 1, st.res)
      ELSE st

\* testweb.py: "EncoderL" / "EncoderR", the speed, then the direction.
TW_encoder(tokens, st, sec) ==
    IF st.idx < Len(tokens) /\ tokens[st.idx + 1] = sec
      THEN IF st.idx + 1 < Len(tokens)
             THEN TW_direction(tokens,
                      Cursor(st.idx + 2, Put(st.res, sec, "Speed", fmt(tokens[st.idx + 2]))),
                      sec)
             ELSE TW_direction(tokens, Cursor(st.idx + 1, st.res), sec)
      ELSE st

\* testweb.py: (fmt(val) + " cm") if val != "---" else val + " cm"
ultrasonic_value(val) == IF val # "---" THEN fmt(val) \o " cm" ELSE val \o " cm"

\* testweb.py: for p in ultrasonic_part.split("Ultrasonic"): ...
RECURSIVE TW_ultrasonic(_, _)
TW_ultrasonic(u, res) ==
    IF u = <<>> THEN res
    ELSE TW_ultrasonic(Tail(u),
             IF Head(u).side = "Right"
               THEN Put(res, "Extra", "Ultrasonic Right", ultrasonic_value(Head(u).val))
             ELSE IF Head(u).side = "Left"
               THEN Put(res, "Extra", "Ultrasonic Left", ultrasonic_value(Head(u).val))
             ELSE res)

\* parse_sensor_line(line) of testweb.py
TW_parse_sensor_line(line) ==
    LET tokens == line.tokens
        s0  == Cursor(0, result("testweb"))
        s1  == read_time(tokens, s0)
        s2  == TW_imu_group(tokens, s1, "IMU1", "IMU1", imu1_map)
        s3  == TW_imu_group(tokens, s2, "IMU2", "IMU2", imu2_map)
        s4  == TW_value(tokens, s3, "IMU1 Linear Velocity", "IMU1Linear", "Linear Velocity")
        s5  == TW_value(tokens, s4, "IMU1's X-velocity", "IMU1Linear", "X velocity")
        s6  == TW_value(tokens, s5, "IMU1's Y-velocity", "IMU1Linear", "Y velocity")
        s7  == TW_value(tokens, s6, "Robot Yaw Rate", "Extra", "Robot Yaw Rate")
        s8  == TW_value(tokens, s7, "Pendulum Angular Velocity", "Extra", "Pendulum Angular Velocity")
        s9  == TW_value(tokens, s8, "Pendulum Angle", "Extra", "Pendulum Angle")
        s10 == TW_value(tokens, s9, "Pendulum Angle (deg)", "Extra", "Pendulum Angle Deg")
        s11 == TW_encoder(tokens, s10, "EncoderL")
        s12 == TW_encoder(tokens, s11, "EncoderR")
    IN  TW_ultrasonic(line.ultra, s12.res)

\* Webserver.py: tokens = [tok.strip() for tok in line.split(",")], the text
\* after a "|" staying in the last token.
WS_tokens(line) ==
    IF line.ultra = <<>> THEN line.tokens
    ELSE [line.tokens EXCEPT ![Len(line.tokens)] = merge(@, line.ultra)]

\* Webserver.py: if idx < len(tokens) and tokens[idx] == marker: idx += 1
WS_marker(tokens, st, marker) ==
    IF st.idx < Len(tokens) /\ tokens[st.idx + 1] = marker
      THEN Cursor(st.idx + 1, st.res)
      ELSE st

\* Webserver.py: for field in imu_fields, its first k rounds: the value is
\* written when the label is at the cursor, and idx += 2 in every round.
RECURSIVE WS_imu_for(_, _, _, _)
WS_imu_for(tokens, st, sec, k) ==
    IF k = 0 THEN st
    ELSE LET s == WS_imu_for(tokens, st, sec, k - 1)
             field == imu_fields[k]
         IN  Cursor(s.idx + 2,
                    IF s.idx + 1 < Len(tokens) /\ tokens[s.idx + 1] = field
                      THEN Put(s.res, sec, field, tokens[s.idx + 2])
                      ELSE s.res)

\* Webserver.py: a label followed by one value; idx += 1 after the value
\* whether or not there was one.
WS_value(tokens, st, label, sec, field) ==
    IF st.idx < Len(tokens) /\ tokens[st.idx + 1] = label
      THEN Cursor(st.idx + 2,
                  IF st.idx + 1 < Len(tokens)
                    THEN Put(st.res, sec, field, tokens[st.idx + 2])
                    ELSE st.res)
      ELSE st

\* Webserver.py: "EncoderL" / "EncoderR", then the speed and the direction
\* by position.
WS_encoder(tokens, st, sec) ==
    IF st.idx < Len(tokens) /\ tokens[st.idx + 1] = sec
      THEN LET r1 == IF st.idx + 1 < Len(tokens)
                       THEN Put(st.res, sec, "Speed", tokens[st.idx + 2])
                       ELSE st.res
               r2 == IF st.idx + 2 < Len(tokens)
                       THEN Put(r1, sec, "Direction", tokens[st.idx + 3])
                       ELSE r1
           IN  Cursor(st.idx + 3, r2)
      ELSE st

\* parse_sensor_line(line) of Webserver.py
WS_parse_sensor_line(line) ==
    LET tokens == WS_tokens(line)
        s0 == Cursor(0, result("Webserver"))
        s1 == read_time(tokens, s0)
        s2 == WS_imu_for(tokens, WS_marker(tokens, s1, "IMU1"), "IMU1", Len(imu_fields))
        s3 == WS_imu_for(tokens, WS_marker(tokens, s2, "IMU2"), "IMU2", Len(imu_fields))
        s4 == WS_value(tokens, s3, "IMU1 Linear Velocity", "IMU1Linear", "Linear Velocity")
        s5 == WS_value(tokens, s4, "IMU1's X-Velocity", "IMU1Linear", "X velocity")
        s6 == WS_value(tokens, s5, "IMU1's Y-Velocity", "IMU1Linear", "Y velocity")
        s7 == WS_encoder(tokens, s6, "EncoderL")
        s8 == WS_encoder(tokens, s7, "EncoderR")
    IN  s8.res

\* parse_sensor_line of the program that runs.
parse_sensor_line(a, line) ==
    IF a = "testweb" THEN TW_parse_sensor_line(line) ELSE WS_parse_sensor_line(line)

\* ------------------------------------------------------------------ Init

Init ==
    /\ app \in {"testweb", "Webserver"}
    /\ PROGRAM_PROCS = [n \in PROGRAMS |-> None]
    /\ imu_proc = None
    /\ motor_test_proc = None
    /\ procs = <<>>
    /\ log = <<>>
    /\ dropped = 0
    /\ last_joystick_send = 0
    /\ now = StartTime
    /\ current_time = [t \in Handlers |-> 0]
    /\ pc = [t \in Handlers |-> "idle"]
    /\ call = [t \in Handlers |-> [op |-> "-", name |-> "-", x |-> 0, y |-> 0]]
    /\ proc = [t \in Handlers |-> None]
    /\ sig = [t \in Handlers |-> "-"]
    /\ ret = [t \in Handlers |-> "-"]
    /\ calls = [t \in Handlers |-> 0]
    /\ sent = <<>>
    /\ sensor_data = [state |-> "missing", line |-> EmptyLine]
    /\ read = [state |-> "none", line |-> EmptyLine]
    /\ snapshot = <<>>

\* ------------------------------------------- testweb.py: the supervisor

\* is_program_running(name) called by a handler.
TW_is_program_running(t, name) ==
    /\ app = "testweb"
    /\ Enter(t, "isRunning", name, 0, 0)
    /\ proc' = [proc EXCEPT ![t] = None]
    /\ sig' = [sig EXCEPT ![t] = "-"]
    /\ Return(t, Bool(is_program_running(name)))
    /\ UNCHANGED <<app, sent, telemetry, handles, procs, log, dropped, clock>>

\* start_program without the "already running" exit of lines 53-54.
start_program_no_check(t, name) ==
    /\ app = "testweb"
    /\ Enter(t, "start", name, 0, 0)
    /\ proc' = [proc EXCEPT ![t] = None]
    /\ sig' = [sig EXCEPT ![t] = "-"]
    /\ IF name \notin PROGRAMS
         THEN /\ log' = log_to_file(log, Rec("ERROR", "unknown program", name))
              /\ Return(t, "False")
         ELSE /\ log' = log
              /\ Goto(t, "Popen")
              /\ ret' = [ret EXCEPT ![t] = "-"]
    /\ UNCHANGED <<app, sent, telemetry, handles, procs, dropped, clock>>

\* start_program that takes any recorded handle for a running program.
start_program_keeps_stale(t, name) ==
    /\ app = "testweb"
    /\ Enter(t, "start", name, 0, 0)
    /\ proc' = [proc EXCEPT ![t] = None]
    /\ sig' = [sig EXCEPT ![t] = "-"]
    /\ IF name \notin PROGRAMS
         THEN /\ log' = log_to_file(log, Rec("ERROR", "unknown program", name))
              /\ Return(t, "False")
         ELSE IF PROGRAM_PROCS_get(name) # None
           THEN /\ log' = log
                /\ Return(t, "True")
           ELSE /\ log' = log
                /\ Goto(t, "Popen")
                /\ ret' = [ret EXCEPT ![t] = "-"]
    /\ UNCHANGED <<app, sent, telemetry, handles, procs, dropped, clock>>

\* start_program(name), lines 50-55: the unknown-name and already-running
\* exits, or on to the spawn.
start_program(t, name) ==
    /\ app = "testweb"
    /\ Enter(t, "start", name, 0, 0)
    /\ proc' = [proc EXCEPT ![t] = None]
    /\ sig' = [sig EXCEPT ![t] = "-"]
    /\ IF name \notin PROGRAMS
         THEN /\ log' = log_to_file(log, Rec("ERROR", "unknown program", name))
              /\ Return(t, "False")
         ELSE IF is_program_running(name)
           THEN /\ log' = log
                /\ Return(t, "True")
           ELSE /\ log' = log
                /\ Goto(t, "Popen")
                /\ ret' = [ret EXCEPT ![t] = "-"]
    /\ UNCHANGED <<app, sent, telemetry, handles, procs, dropped, clock>>

\* subprocess.Popen(...) of start_program, line 57 (right-hand side): the
\* child is created, or Popen raises.
start_Popen(t) ==
    /\ app = "testweb"
    /\ pc[t] = "Popen"
    /\ \/ /\ CanSpawn
          /\ procs' = Popen(call[t].name)
          /\ proc' = [proc EXCEPT ![t] = Len(procs')]
          /\ Goto(t, "store")
       \/ /\ Goto(t, "log_start_failed")
          /\ UNCHANGED <<procs, proc>>
    /\ UNCHANGED <<calls, app, sent, telemetry, handles, log, dropped, clock, call, sig, ret>>

\* start_program that drops the new Popen instead of recording it.
start_store_dropped(t) ==
    /\ app = "testweb"
    /\ pc[t] = "store"
    /\ PROGRAM_PROCS' = PROGRAM_PROCS
    /\ Goto(t, "log_started")
    /\ UNCHANGED <<calls, app, sent, telemetry, imu_proc, motor_test_proc, procs, log, dropped, clock,
                   call, proc, sig, ret>>

\* PROGRAM_PROCS[name] = <the new Popen>, line 57 (the store).
start_store(t) ==
    /\ app = "testweb"
    /\ pc[t] = "store"
    /\ PROGRAM_PROCS' = [PROGRAM_PROCS EXCEPT ![call[t].name] = proc[t]]
    /\ Goto(t, "log_started")
    /\ UNCHANGED <<calls, app, sent, telemetry, imu_proc, motor_test_proc, procs, log, dropped, clock,
                   call, proc, sig, ret>>

\* log_to_file("SYSTEM", "... started"); return True, lines 61-62.
start_log_started(t) ==
    /\ app = "testweb"
    /\ pc[t] = "log_started"
    /\ log' = log_to_file(log, Rec("SYSTEM", "started", call[t].name))
    /\ Return(t, "True")
    /\ UNCHANGED <<calls, app, sent, telemetry, handles, procs, dropped, clock, call, proc, sig>>

\* except: log_to_file("ERROR", "Failed to start ..."), line 64.
start_log_failed(t) ==
    /\ app = "testweb"
    /\ pc[t] = "log_start_failed"
    /\ log' = log_to_file(log, Rec("ERROR", "failed to start", call[t].name))
    /\ Goto(t, "except_clear")
    /\ UNCHANGED <<calls, app, sent, telemetry, handles, procs, dropped, clock, call, proc, sig, ret>>

\* except: PROGRAM_PROCS[name] = None; return False, lines 65-66.
start_except_clear(t) ==
    /\ app = "testweb"
    /\ pc[t] = "except_clear"
    /\ PROGRAM_PROCS' = [PROGRAM_PROCS EXCEPT ![call[t].name] = None]
    /\ Return(t, "False")
    /\ UNCHANGED <<calls, app, sent, telemetry, imu_proc, motor_test_proc, procs, log, dropped, clock,
                   call, proc, sig>>

\* stop_program that writes its "stopped" record before the running test.
stop_program_logs_first(t, name) ==
    /\ app = "testweb"
    /\ Enter(t, "stop", name, 0, 0)
    /\ proc' = [proc EXCEPT ![t] = None]
    /\ sig' = [sig EXCEPT ![t] = "-"]
    /\ log' = log_to_file(log, Rec("SYSTEM", "stopped", name))
    /\ IF ~is_program_running(name)
         THEN Return(t, "None")
         ELSE /\ Goto(t, "read_proc")
              /\ ret' = [ret EXCEPT ![t] = "-"]
    /\ UNCHANGED <<app, sent, telemetry, handles, procs, dropped, clock>>

\* stop_program(name), lines 70-71: not running, return; else on to the kill.
stop_program(t, name) ==
    /\ app = "testweb"
    /\ Enter(t, "stop", name, 0, 0)
    /\ proc' = [proc EXCEPT ![t] = None]
    /\ sig' = [sig EXCEPT ![t] = "-"]
    /\ IF ~is_program_running(name)
         THEN Return(t, "None")
         ELSE /\ Goto(t, "read_proc")
              /\ ret' = [ret EXCEPT ![t] = "-"]
    /\ UNCHANGED <<app, sent, telemetry, handles, procs, log, dropped, clock>>

\* proc = PROGRAM_PROCS[name], line 73.
stop_read_proc(t) ==
    /\ app = "testweb"
    /\ pc[t] = "read_proc"
    /\ proc' = [proc EXCEPT ![t] = PROGRAM_PROCS[call[t].name]]
    /\ Goto(t, "killpg")
    /\ UNCHANGED <<calls, app, sent, telemetry, handles, procs, log, dropped, clock, call, sig, ret>>

\* os.killpg(os.getpgid(proc.pid), signal.SIGTERM), line 74: the signal is
\* delivered, or the call raises (proc is None, the process is gone, the
\* signal is not permitted).
stop_killpg(t) ==
    /\ app = "testweb"
    /\ pc[t] = "killpg"
    /\ \/ /\ proc[t] # None
          /\ procs' = killpg(proc[t])
          /\ sig' = [sig EXCEPT ![t] = "sent"]
          /\ Goto(t, "log_stopped")
       \/ /\ procs' = procs
          /\ sig' = [sig EXCEPT ![t] = "failed"]
          /\ Goto(t, "log_stop_failed")
    /\ UNCHANGED <<calls, app, sent, telemetry, handles, log, dropped, clock, call, proc, ret>>

\* log_to_file("SYSTEM", "... stopped"), line 75.
stop_log_stopped(t) ==
    /\ app = "testweb"
    /\ pc[t] = "log_stopped"
    /\ log' = log_to_file(log, Rec("SYSTEM", "stopped", call[t].name))
    /\ Goto(t, "finally")
    /\ UNCHANGED <<calls, app, sent, telemetry, handles, procs, dropped, clock, call, proc, sig, ret>>

\* except: log_to_file("ERROR", "Failed to stop ..."), lines 76-77.
stop_log_failed(t) ==
    /\ app = "testweb"
    /\ pc[t] = "log_stop_failed"
    /\ log' = log_to_file(log, Rec("ERROR", "failed to stop", call[t].name))
    /\ Goto(t, "finally")
    /\ UNCHANGED <<calls, app, sent, telemetry, handles, procs, dropped, clock, call, proc, sig, ret>>

\* stop_program with the handle cleared inside the try block, after killpg,
\* instead of in the finally clause.
stop_clear_in_try(t) ==
    /\ app = "testweb"
    /\ pc[t] = "finally"
    /\ PROGRAM_PROCS' = IF sig[t] = "sent"
                           THEN [PROGRAM_PROCS EXCEPT ![call[t].name] = None]
                           ELSE PROGRAM_PROCS
    /\ Return(t, "None")
    /\ UNCHANGED <<calls, app, sent, telemetry, imu_proc, motor_test_proc, procs, log, dropped, clock,
                   call, proc, sig>>

\* finally: PROGRAM_PROCS[name] = None, lines 78-79; the function returns.
stop_finally(t) ==
    /\ app = "testweb"
    /\ pc[t] = "finally"
    /\ PROGRAM_PROCS' = [PROGRAM_PROCS EXCEPT ![call[t].name] = None]
    /\ Return(t, "None")
    /\ UNCHANGED <<calls, app, sent, telemetry, imu_proc, motor_test_proc, procs, log, dropped, clock,
                   call, proc, sig>>

\* ----------------------------------------- Webserver.py: the supervisor

\* An assignment that writes both globals at once.
WS_set_both(name, v) ==
    /\ imu_proc' = v
    /\ motor_test_proc' = v
    /\ UNCHANGED PROGRAM_PROCS

\* Assignment to the global imu_proc or motor_test_proc.
WS_set(name, v) ==
    /\ imu_proc' = IF name = "imu" THEN v ELSE imu_proc
    /\ motor_test_proc' = IF name = "motortest" THEN v ELSE motor_test_proc
    /\ UNCHANGED PROGRAM_PROCS

\* is_imu_running() / is_motor_test_running() called by a handler.
WS_is_running_call(t, name) ==
    /\ app = "Webserver"
    /\ name \in WS_NAMES
    /\ Enter(t, "isRunning", name, 0, 0)
    /\ proc' = [proc EXCEPT ![t] = None]
    /\ sig' = [sig EXCEPT ![t] = "-"]
    /\ Return(t, Bool(WS_is_running(name)))
    /\ UNCHANGED <<app, sent, telemetry, handles, procs, log, dropped, clock>>

\* start_imu(), line 33, and start_motor_test(), line 57: the test
\* "if not is_..._running()".
WS_start(t, name) ==
    /\ app = "Webserver"
    /\ name \in WS_NAMES
    /\ Enter(t, "start", name, 0, 0)
    /\ proc' = [proc EXCEPT ![t] = None]
    /\ sig' = [sig EXCEPT ![t] = "-"]
    /\ ret' = [ret EXCEPT ![t] = "-"]
    /\ IF WS_is_running(name)
         THEN Goto(t, "ws_return")
         ELSE IF name = "motortest"
           THEN Goto(t, "ws_truncate")
           ELSE Goto(t, "ws_Popen")
    /\ UNCHANGED <<app, sent, telemetry, handles, procs, log, dropped, clock>>

\* start_motor_test(), lines 59-61 and 63-64: open("numbers.txt", "w")
\* empties the file, or raises and the error is printed.
WS_truncate(t) ==
    /\ app = "Webserver"
    /\ pc[t] = "ws_truncate"
    /\ \/ /\ log' = <<>>
          /\ dropped' = Len(log)
          /\ Goto(t, "ws_log_cleared")
       \/ /\ UNCHANGED <<log, dropped>>
          /\ Goto(t, "ws_Popen")
    /\ UNCHANGED <<calls, app, sent, telemetry, handles, procs, clock, call, proc, sig, ret>>

\* start_motor_test(), line 62: log_to_file("SYSTEM", "numbers.txt cleared").
WS_log_cleared(t) ==
    /\ app = "Webserver"
    /\ pc[t] = "ws_log_cleared"
    /\ log' = log_to_file(log, Rec("SYSTEM", "numbers.txt cleared", "-"))
    /\ Goto(t, "ws_Popen")
    /\ UNCHANGED <<calls, app, sent, telemetry, handles, procs, dropped, clock, call, proc, sig, ret>>

\* subprocess.Popen(...), lines 34 and 67 (right-hand side): the child is
\* created, or Popen raises; nothing catches the exception, which leaves
\* the function.
WS_Popen(t) ==
    /\ app = "Webserver"
    /\ pc[t] = "ws_Popen"
    /\ \/ /\ CanSpawn
          /\ procs' = Popen(call[t].name)
          /\ proc' = [proc EXCEPT ![t] = Len(procs')]
          /\ Goto(t, "ws_store")
          /\ ret' = ret
       \/ /\ Return(t, "raised")
          /\ UNCHANGED <<procs, proc>>
    /\ UNCHANGED <<calls, app, sent, telemetry, handles, log, dropped, clock, call, sig>>

\* imu_proc = <the new Popen>, line 34; motor_test_proc = ..., line 67.
WS_store(t) ==
    /\ app = "Webserver"
    /\ pc[t] = "ws_store"
    /\ WS_set(call[t].name, proc[t])
    /\ Goto(t, "ws_log_started")
    /\ UNCHANGED <<calls, app, sent, telemetry, procs, log, dropped, clock, call, proc, sig, ret>>

\* log_to_file("SYSTEM", "... Process started"), lines 35 and 68.
WS_log_started(t) ==
    /\ app = "Webserver"
    /\ pc[t] = "ws_log_started"
    /\ log' = log_to_file(log, Rec("SYSTEM", "started", call[t].name))
    /\ Goto(t, "ws_return")
    /\ UNCHANGED <<calls, app, sent, telemetry, handles, procs, dropped, clock, call, proc, sig, ret>>

\* return is_imu_running(), line 36; return is_motor_test_running(), line 69.
WS_return(t) ==
    /\ app = "Webserver"
    /\ pc[t] = "ws_return"
    /\ Return(t, Bool(WS_is_running(call[t].name)))
    /\ UNCHANGED <<calls, app, sent, telemetry, handles, procs, log, dropped, clock, call, proc, sig>>

\* stop_imu(), line 41, and stop_motor_test(), line 74: the test
\* "if is_..._running()".
WS_stop(t, name) ==
    /\ app = "Webserver"
    /\ name \in WS_NAMES
    /\ Enter(t, "stop", name, 0, 0)
    /\ proc' = [proc EXCEPT ![t] = None]
    /\ sig' = [sig EXCEPT ![t] = "-"]
    /\ IF ~WS_is_running(name)
         THEN Return(t, "None")
         ELSE /\ Goto(t, "ws_killpg")
              /\ ret' = [ret EXCEPT ![t] = "-"]
    /\ UNCHANGED <<app, sent, telemetry, handles, procs, log, dropped, clock>>

\* os.killpg(os.getpgid(imu_proc.pid), signal.SIGTERM), lines 43 and 76: the
\* global is read here; the signal is delivered, or the call raises and
\* "except Exception: pass" drops the error.
WS_killpg(t) ==
    /\ app = "Webserver"
    /\ pc[t] = "ws_killpg"
    /\ \/ /\ WS_proc(call[t].name) # None
          /\ procs' = killpg(WS_proc(call[t].name))
          /\ sig' = [sig EXCEPT ![t] = "sent"]
          /\ Goto(t, "ws_log_stopped")
       \/ /\ UNCHANGED procs
          /\ sig' = [sig EXCEPT ![t] = "failed"]
          /\ Goto(t, "ws_clear")
    /\ UNCHANGED <<calls, app, sent, telemetry, handles, log, dropped, clock, call, proc, ret>>

\* log_to_file("SYSTEM", "... Process stopped"), lines 44 and 77.
WS_log_stopped(t) ==
    /\ app = "Webserver"
    /\ pc[t] = "ws_log_stopped"
    /\ log' = log_to_file(log, Rec("SYSTEM", "stopped", call[t].name))
    /\ Goto(t, "ws_clear")
    /\ UNCHANGED <<calls, app, sent, telemetry, handles, procs, dropped, clock, call, proc, sig, ret>>

\* imu_proc = None, line 47; motor_test_proc = None, line 80; the function
\* returns.
WS_clear(t) ==
    /\ app = "Webserver"
    /\ pc[t] = "ws_clear"
    /\ WS_set(call[t].name, None)
    /\ Return(t, "None")
    /\ UNCHANGED <<calls, app, sent, telemetry, procs, log, dropped, clock, call, proc, sig>>

\* ------------------------------------------------ routes of both programs

\* home(): log_to_file("SYSTEM", "Web interface loaded") and the page.
home(t) ==
    /\ Enter(t, "home", "-", 0, 0)
    /\ proc' = [proc EXCEPT ![t] = None]
    /\ sig' = [sig EXCEPT ![t] = "-"]
    /\ log' = log_to_file(log, Rec("SYSTEM", "Web interface loaded", "-"))
    /\ Return(t, "page")
    /\ UNCHANGED <<app, sent, telemetry, handles, procs, dropped, clock>>

\* get_top_row(): log_to_file("ACTION", "Remove Row pressed").
get_top_row(t) ==
    /\ Enter(t, "get_top_row", "-", 0, 0)
    /\ proc' = [proc EXCEPT ![t] = None]
    /\ sig' = [sig EXCEPT ![t] = "-"]
    /\ log' = log_to_file(log, Rec("ACTION", "Remove Row pressed", "-"))
    /\ Return(t, "Removed top row!")
    /\ UNCHANGED <<app, sent, telemetry, handles, procs, dropped, clock>>

\* The throttle test with > in place of >=.
should_emit_strict(time, last) ==
    time - last > joystick_throttle_interval

\* current_time - last_joystick_send >= joystick_throttle_interval
should_emit(time, last) ==
    time - last >= joystick_throttle_interval

\* direction_ajax that never sets last_joystick_send.
direction_ajax_no_update(t, x, y) ==
    /\ Enter(t, "direction_ajax", "-", x, y)
    /\ proc' = [proc EXCEPT ![t] = None]
    /\ sig' = [sig EXCEPT ![t] = "-"]
    /\ current_time' = [current_time EXCEPT ![t] = now]
    /\ sent' = Append(sent, [at |-> now, emit |-> should_emit(now, last_joystick_send)])
    /\ IF should_emit(now, last_joystick_send)
         THEN /\ log' = log_to_file(log, JoyRec(x, y))
              /\ UNCHANGED last_joystick_send
         ELSE UNCHANGED <<last_joystick_send, log>>
    /\ Return(t, joystick_msg(x, y))
    /\ UNCHANGED <<app, telemetry, handles, procs, dropped, now>>

\* direction_ajax that answers with the message only when it logged it.
direction_ajax_ack_if_logged(t, x, y) ==
    /\ Enter(t, "direction_ajax", "-", x, y)
    /\ proc' = [proc EXCEPT ![t] = None]
    /\ sig' = [sig EXCEPT ![t] = "-"]
    /\ current_time' = [current_time EXCEPT ![t] = now]
    /\ sent' = Append(sent, [at |-> now, emit |-> should_emit(now, last_joystick_send)])
    /\ IF should_emit(now, last_joystick_send)
         THEN /\ last_joystick_send' = now
              /\ log' = log_to_file(log, JoyRec(x, y))
              /\ Return(t, joystick_msg(x, y))
         ELSE /\ UNCHANGED <<last_joystick_send, log>>
              /\ Return(t, "")
    /\ UNCHANGED <<app, telemetry, handles, procs, dropped, now>>

\* direction_ajax(): the throttle test on the shared last_joystick_send,
\* the update and the log record; the message is returned either way.
\* Taken as one step: it runs one request at a time.  sent records, for
\* each command, current_time and the outcome of the throttle test.
direction_ajax(t, x, y) ==
    /\ Enter(t, "direction_ajax", "-", x, y)
    /\ proc' = [proc EXCEPT ![t] = None]
    /\ sig' = [sig EXCEPT ![t] = "-"]
    /\ current_time' = [current_time EXCEPT ![t] = now]
    /\ sent' = Append(sent, [at |-> now, emit |-> should_emit(now, last_joystick_send)])
    /\ IF should_emit(now, last_joystick_send)
         THEN /\ last_joystick_send' = now
              /\ log' = log_to_file(log, JoyRec(x, y))
         ELSE UNCHANGED <<last_joystick_send, log>>
    /\ Return(t, joystick_msg(x, y))
    /\ UNCHANGED <<app, telemetry, handles, procs, dropped, now>>

\* direction_ajax as concurrent handlers run it, statement by statement:
\* current_time = time.time() and msg, line 329-333.
direction_ajax_begin(t, x, y) ==
    /\ Enter(t, "direction_ajax", "-", x, y)
    /\ proc' = [proc EXCEPT ![t] = None]
    /\ sig' = [sig EXCEPT ![t] = "-"]
    /\ ret' = [ret EXCEPT ![t] = "-"]
    /\ current_time' = [current_time EXCEPT ![t] = now]
    /\ Goto(t, "joy_test")
    /\ UNCHANGED <<app, sent, telemetry, handles, procs, log, dropped,
                   last_joystick_send, now>>

\* if current_time - last_joystick_send >= joystick_throttle_interval, line
\* 335; when the test fails the message is returned.
direction_ajax_test(t) ==
    /\ pc[t] = "joy_test"
    /\ IF should_emit(current_time[t], last_joystick_send)
         THEN /\ Goto(t, "joy_update")
              /\ UNCHANGED <<sent, ret>>
         ELSE /\ sent' = Append(sent, [at |-> current_time[t], emit |-> FALSE])
              /\ Return(t, joystick_msg(call[t].x, call[t].y))
    /\ UNCHANGED <<calls, app, telemetry, handles, procs, log, dropped, clock,
                   call, proc, sig>>

\* last_joystick_send = current_time, line 336.
direction_ajax_update(t) ==
    /\ pc[t] = "joy_update"
    /\ last_joystick_send' = current_time[t]
    /\ Goto(t, "joy_log")
    /\ UNCHANGED <<calls, app, sent, telemetry, handles, procs, log, dropped,
                   now, current_time, call, proc, sig, ret>>

\* log_to_file("JOYSTICK", msg) and the return, lines 337-339.
direction_ajax_log(t) ==
    /\ pc[t] = "joy_log"
    /\ log' = log_to_file(log, JoyRec(call[t].x, call[t].y))
    /\ sent' = Append(sent, [at |-> current_time[t], emit |-> TRUE])
    /\ Return(t, joystick_msg(call[t].x, call[t].y))
    /\ UNCHANGED <<calls, app, telemetry, handles, procs, dropped, clock,
                   call, proc, sig>>

\* sensor_feed without the except clause: a failed open() leaves the route
\* with the exception.
sensor_feed_no_except(t) ==
    /\ Enter(t, "sensor_feed", "-", 0, 0)
    /\ proc' = [proc EXCEPT ![t] = None]
    /\ sig' = [sig EXCEPT ![t] = "-"]
    /\ read' = sensor_data
    /\ IF sensor_data.state = "text"
         THEN /\ snapshot' = parse_sensor_line(app, sensor_data.line)
              /\ Return(t, "snapshot")
         ELSE /\ UNCHANGED snapshot
              /\ Return(t, "raised")
    /\ UNCHANGED <<app, sent, sensor_data, handles, procs, log, dropped, clock>>

\* sensor_feed(): the first line of sensor_data.txt, stripped and parsed;
\* when open() or the read raises, the parse of "".
sensor_feed(t) ==
    /\ Enter(t, "sensor_feed", "-", 0, 0)
    /\ proc' = [proc EXCEPT ![t] = None]
    /\ sig' = [sig EXCEPT ![t] = "-"]
    /\ read' = sensor_data
    /\ snapshot' = IF sensor_data.state = "text"
                     THEN parse_sensor_line(app, sensor_data.line)
                     ELSE parse_sensor_line(app, EmptyLine)
    /\ Return(t, "snapshot")
    /\ UNCHANGED <<app, sent, sensor_data, handles, procs, log, dropped, clock>>

\* ----------------------------------------------------------- environment

\* The IMU script rewrites sensor_data.txt, or the file is removed or made
\* unreadable.
SensorWrite(f) ==
    /\ f # sensor_data
    /\ sensor_data' = f
    /\ UNCHANGED <<calls, app, sent, read, snapshot, handles, procs, log, dropped, clock,
                   pc, call, proc, sig, ret>>


\* A child process exits on its own (the script ends or crashes).
ChildExit(p) ==
    /\ p \in DOMAIN procs
    /\ procs[p].alive
    /\ procs' = [procs EXCEPT ![p].alive = FALSE]
    /\ UNCHANGED <<calls, app, sent, telemetry, handles, log, dropped, clock, pc, call, proc, sig, ret>>

\* Time passes: the clock advances by d hundredths of a second.
TickSteps == {10, 15, 16}

Tick(d) ==
    /\ now + d <= StartTime + MaxTime
    /\ now' = now + d
    /\ UNCHANGED <<calls, app, sent, telemetry, handles, procs, log, dropped,
                   last_joystick_send, current_time, pc, call, proc, sig, ret>>

\* ------------------------------------------------------- specifications

\* The supervisor's calls and steps of handler t, on names drawn from N.
Supervisor(t, N) ==
    \/ \E name \in N : TW_is_program_running(t, name)
    \/ \E name \in N : start_program(t, name)
    \/ start_Popen(t)
    \/ start_store(t)
    \/ start_log_started(t)
    \/ start_log_failed(t)
    \/ start_except_clear(t)
    \/ \E name \in N : stop_program(t, name)
    \/ stop_read_proc(t)
    \/ stop_killpg(t)
    \/ stop_log_stopped(t)
    \/ stop_log_failed(t)
    \/ stop_finally(t)
    \/ \E name \in N : WS_is_running_call(t, name)
    \/ \E name \in N : WS_start(t, name)
    \/ WS_truncate(t)
    \/ WS_log_cleared(t)
    \/ WS_Popen(t)
    \/ WS_store(t)
    \/ WS_log_started(t)
    \/ WS_return(t)
    \/ \E name \in N : WS_stop(t, name)
    \/ WS_killpg(t)
    \/ WS_log_stopped(t)
    \/ WS_clear(t)

\* The routes that only write the event log.
Routes(t) ==
    \/ home(t)
    \/ get_top_row(t)
    \/ \E x \in JoyX, y \in JoyY : direction_ajax(t, x, y)

AllNames == PROGRAMS \cup {UnknownName}

\* One handler at a time: every operation of the server, on every name.
NextSeq ==
    \/ Supervisor(1, AllNames)
    \/ Routes(1)
    \/ \E p \in Pids : ChildExit(p)

SpecSeq == Init /\ [][NextSeq]_vars

\* One handler serving the page routes while time passes.
NextThrottle ==
    \/ Routes(1)
    \/ \E d \in TickSteps : Tick(d)

SpecThrottle == Init /\ [][NextThrottle]_vars

\* One handler polling the telemetry while sensor_data.txt changes.
NextDecode ==
    \/ sensor_feed(1)
    \/ \E f \in Files : SensorWrite(f)

SpecDecode == Init /\ [][NextDecode]_vars

\* Two handlers at once on joystick commands while time passes.
NextJoystick ==
    \/ \E t \in Handlers :
          \/ \E x \in JoyX, y \in JoyY : direction_ajax_begin(t, x, y)
          \/ direction_ajax_test(t)
          \/ direction_ajax_update(t)
          \/ direction_ajax_log(t)
    \/ \E d \in TickSteps : Tick(d)

SpecJoystick == Init /\ [][NextJoystick]_vars

\* Two handlers at once on the supervisor.
RaceNames == {"imu", "motortest"}

Next ==
    \/ \E t \in Handlers : Supervisor(t, RaceNames)
    \/ \E p \in Pids : ChildExit(p)

Spec == Init /\ [][Next]_vars

\* ------------------------------------------------- vocabulary of claims

\* The handle the running application records for a name (None if absent).
HandleOf(n) ==
    IF app = "testweb" THEN PROGRAM_PROCS_get(n)
    ELSE IF n = "imu" THEN imu_proc
    ELSE IF n = "motortest" THEN motor_test_proc
    ELSE None

\* The live OS processes that were spawned for a name.
LiveOf(n) == {p \in DOMAIN procs : procs[p].name = n /\ procs[p].alive}

\* A handle is recorded for n and its process has not exited.
RecordedAlive(n) == HandleOf(n) # None /\ procs[HandleOf(n)].alive

\* l is a prefix of m.
IsPrefix(l, m) == Len(l) <= Len(m) /\ SubSeq(m, 1, Len(l)) = l

\* In this step handler t takes on a call of op (its frame is the one set).
Enters(t, op) ==
    /\ calls'[t] = calls[t] + 1
    /\ call'[t].op = op

\* In this step handler t, inside a call of op, moves on.
Moves(t, op) == pc[t] # "idle" /\ pc'[t] # pc[t] /\ call[t].op = op

\* In this step handler t returns from a call of op it was inside of.
Returns(t, op) == Moves(t, op) /\ pc'[t] = "idle"

\* C1: at most one live OS process spawned for a name exists at any time.
C1_AtMostOneLivePerName ==
    \A n \in PROGRAMS : Cardinality(LiveOf(n)) <= 1

\* C2: a start of a name whose recorded child is alive spawns nothing, keeps
\* the handle, writes no record and returns True; when the only two calls of
\* a run are two starts of one name that both returned True and the second
\* spawned nothing, exactly one live process of the name exists while the
\* child lives.
C2_SecondStartStep ==
    \A t \in Handlers :
        /\ (Enters(t, "start") /\ RecordedAlive(call'[t].name))
              => /\ procs' = procs
                 /\ handles' = handles
                 /\ log' = log
                 /\ proc'[t] = None
                 /\ app = "testweb" => (pc'[t] = "idle" /\ ret'[t] = "True")
                 /\ app = "Webserver" => pc'[t] = "ws_return"
        /\ (Returns(t, "start") /\ proc[t] = None /\ pc[t] = "ws_return"
              /\ RecordedAlive(call[t].name))
              => /\ ret'[t] = "True"
                 /\ procs' = procs
                 /\ handles' = handles
                 /\ log' = log

C2_TwoStarts(t, u) ==
    /\ calls[1] + calls[2] = 2
    /\ pc[t] = "idle" /\ pc[u] = "idle"
    /\ call[t].op = "start" /\ call[u].op = "start"
    /\ call[t].name = call[u].name
    /\ ret[t] = "True" /\ ret[u] = "True"
    /\ proc[u] # None /\ proc[t] = None

C2_StartIdempotent ==
    /\ [](\A t, u \in Handlers :
            (C2_TwoStarts(t, u) /\ procs[proc[u]].alive)
               => (LiveOf(call[t].name) = {proc[u]} /\ HandleOf(call[t].name) = proc[u]))
    /\ [][C2_SecondStartStep]_vars

C2_Witness ==
    \E t, u \in Handlers :
        /\ C2_TwoStarts(t, u)
        /\ procs[proc[u]].alive
        /\ Cardinality(LiveOf(call[t].name)) = 1

\* C3: two handlers never are inside start of the same name at once, each
\* with a live process it spawned in that call.
C3_StartsSerialized ==
    \A t, u \in Handlers :
        (/\ t # u
         /\ pc[t] # "idle" /\ pc[u] # "idle"
         /\ call[t].op = "start" /\ call[u].op = "start"
         /\ call[t].name = call[u].name)
           => ~(/\ proc[t] # None /\ proc[u] # None
                /\ procs[proc[t]].alive /\ procs[proc[u]].alive)

\* C4: isRunning(name) returns True iff a handle is recorded for name and the
\* process behind it has not exited, and False otherwise (no handle, unknown
\* name, exited process).
C4_IsRunningStep ==
    \A t \in Handlers :
        Enters(t, "isRunning")
          => /\ pc'[t] = "idle"
             /\ ret'[t] = IF RecordedAlive(call'[t].name) THEN "True" ELSE "False"
             /\ call'[t].name \notin PROGRAMS => ret'[t] = "False"

C4_IsRunning == [][C4_IsRunningStep]_vars

C4_Witness ==
    \E t \in Handlers :
        /\ pc[t] = "idle" /\ call[t].op = "isRunning" /\ ret[t] = "False"
        /\ HandleOf(call[t].name) # None
        /\ ~procs[HandleOf(call[t].name)].alive

\* C5: a start that fails (unknown name, or the spawn raises) returns False
\* and leaves no handle recorded for the name.
C5_FailedStartReturnsFalse ==
    \A t \in Handlers :
        (/\ pc[t] = "idle" /\ call[t].op = "start" /\ proc[t] = None
         /\ \/ app = "testweb" /\ ret[t] # "True"
            \/ ret[t] = "raised")
          => (ret[t] = "False" /\ HandleOf(call[t].name) = None)

\* C6: a stop that found the name running returns with the handle cleared
\* and isRunning false, whether the signal was delivered or not.
C6_StopStep ==
    \A t \in Handlers :
        Returns(t, "stop")
          => /\ sig'[t] \in {"sent", "failed"}
             /\ HandleOf(call[t].name)' = None
             /\ ~RecordedAlive(call[t].name)'

C6_StopClearsHandle == [][C6_StopStep]_vars

C6_Witness ==
    \E t \in Handlers :
        /\ pc[t] = "idle" /\ call[t].op = "stop" /\ sig[t] = "failed"
        /\ proc[t] # None /\ procs[proc[t]].alive
        /\ HandleOf(call[t].name) = None

\* C7: when the signal could not be delivered, stop returns normally and a
\* record of the failure for that name is in the event log.
C7_SignalFailureLogged ==
    \A t \in Handlers :
        (pc[t] = "idle" /\ call[t].op = "stop" /\ sig[t] = "failed")
          => /\ ret[t] = "None"
             /\ \E i \in DOMAIN log :
                    log[i] = Rec("ERROR", "failed to stop", call[t].name)

\* C8: stop of a name with no handle (never started, or unknown) returns at
\* once without raising, signals nothing, writes no record and leaves the
\* name without a handle.
C8_StopStep ==
    \A t \in Handlers :
        (Enters(t, "stop") /\ HandleOf(call'[t].name) = None)
          => /\ pc'[t] = "idle"
             /\ ret'[t] = "None"
             /\ sig'[t] = "-"
             /\ procs' = procs
             /\ log' = log
             /\ handles' = handles
             /\ HandleOf(call[t].name)' = None

C8_StopNeverStarted == [][C8_StopStep]_vars

C8_Witness ==
    \E t \in Handlers :
        /\ pc[t] = "idle" /\ call[t].op = "stop" /\ ret[t] = "None"
        /\ sig[t] = "-"
        /\ call[t].name = UnknownName
        /\ procs # <<>>

\* C9: a start of the motor test that spawned its process returns with the
\* log holding only the records of that start, and no step of a start of
\* another name removes a record.
C9_OwnRecords ==
    {Rec("SYSTEM", "numbers.txt cleared", "-"), Rec("SYSTEM", "started", "motortest")}

C9_Step ==
    \A t \in Handlers :
        /\ (Returns(t, "start") /\ call[t].name = "motortest" /\ proc[t] # None)
              => \A i \in DOMAIN log' : log'[i] \in C9_OwnRecords
        /\ ((Moves(t, "start") /\ call[t].name # "motortest")
              \/ (Enters(t, "start") /\ call'[t].name # "motortest"))
              => IsPrefix(log, log')

C9_MotorTestTruncates == [][C9_Step]_vars

\* C10 as claimed: every step leaves the records written so far as a prefix
\* of the log.
C10_AppendOnly == [][IsPrefix(log, log')]_vars

\* The step of Webserver.py's start_motor_test that empties numbers.txt.
C10_TruncateStep ==
    /\ app = "Webserver"
    /\ \E t \in Handlers :
          /\ pc[t] = "ws_truncate"
          /\ call[t].op = "start"
          /\ call[t].name = "motortest"
          /\ pc'[t] = "ws_log_cleared"
    /\ log' = <<>>

\* C10 amended: every step appends at most one whole record to the log and
\* removes none, except Webserver.py's start of the motor test, which empties
\* the log before it spawns.
C10_AppendOnlyButMotorTest ==
    [][\/ (IsPrefix(log, log') /\ Len(log') <= Len(log) + 1)
       \/ C10_TruncateStep]_vars

C10_Witness ==
    /\ dropped > 0
    /\ \E t \in Handlers : pc[t] = "idle" /\ call[t].op = "start"
                           /\ call[t].name = "motortest" /\ ret[t] = "True"
    /\ Len(log) = 2

\* ------------------------------------------------- control-action routes

\* The "status" a control route answers with, from the supervisor call it
\* wraps and that call's result: sensor_on / sensor_off (imu) and the
\* start_... / stop_... routes.  A call that raised leaves the route without
\* a JSON body; Flask answers 500.
route_status(op, name, r) ==
    IF r = "raised" THEN "500 Internal Server Error"
    ELSE IF op = "start" /\ name = "imu" THEN (IF r = "True" THEN "ON" ELSE "ERROR")
    ELSE IF op = "stop" /\ name = "imu" THEN "OFF"
    ELSE IF op = "start" THEN (IF r = "True" THEN "started" ELSE "failed")
    ELSE "stopped"

\* The names the running application has control routes for.
RouteNames == IF app = "testweb" THEN PROGRAMS ELSE WS_NAMES

\* C11: the response of every finished control action carries a status from
\* {started, failed, stopped, ON, OFF}.
C11_StatusSet == {"started", "failed", "stopped", "ON", "OFF"}

C11_StatusInSet ==
    \A t \in Handlers :
        (/\ pc[t] = "idle"
         /\ call[t].op \in {"start", "stop"}
         /\ call[t].name \in RouteNames)
          => route_status(call[t].op, call[t].name, ret[t]) \in C11_StatusSet

\* ------------------------------------------------------ joystick throttle

\* In this step handler t handles one joystick command (the whole request).
JoystickStep(t) == Enters(t, "direction_ajax")

\* C12 (as stated): a joystick command handled at time now is in the event
\* log afterwards and last_joystick_send = now iff now - last_joystick_send
\* >= 0.25 s; otherwise nothing is logged and last_joystick_send is
\* unchanged.
C12_Step ==
    \A t \in Handlers :
        JoystickStep(t)
          => IF now - last_joystick_send >= 25
               THEN /\ last_joystick_send' = now
                    /\ log' = Append(log, JoyRec(call'[t].x, call'[t].y))
               ELSE /\ last_joystick_send' = last_joystick_send
                    /\ log' = log

C12_LoggedIffInterval == [][C12_Step]_vars

\* C12 (amended): last_joystick_send is set to now and the command is written
\* to the event log iff now - last_joystick_send >= 0.25 s, where the write
\* may fail and then leaves the log as it was; otherwise nothing is logged
\* and last_joystick_send is unchanged.
C12_AmendedStep ==
    \A t \in Handlers :
        JoystickStep(t)
          => IF now - last_joystick_send >= 25
               THEN /\ last_joystick_send' = now
                    /\ log' \in {Append(log, JoyRec(call'[t].x, call'[t].y)), log}
               ELSE /\ last_joystick_send' = last_joystick_send
                    /\ log' = log

C12_WriteAttemptedIffInterval == [][C12_AmendedStep]_vars

\* A command exactly 0.25 s after the last logged one has been logged.
C12_Witness ==
    /\ Len(sent) = 2
    /\ sent[1].emit /\ sent[2].emit
    /\ sent[2].at - sent[1].at = 25
    /\ last_joystick_send = sent[2].at
    /\ Len(log) = 2 /\ log[2].tag = "JOYSTICK"

\* C13: from the initial throttle state, commands at t, t + 0.1 s and
\* t + 0.26 s are logged, suppressed and logged (true, false, true).
C13_Sequence ==
    \A n \in 1..Len(sent) :
        /\ n = 1 => sent[1].emit
        /\ (n = 2 /\ sent[2].at = sent[1].at + 10) => ~sent[2].emit
        /\ (n = 3 /\ sent[2].at = sent[1].at + 10 /\ sent[3].at = sent[1].at + 26)
             => sent[3].emit

C13_Witness ==
    /\ Len(sent) = 3
    /\ sent[2].at = sent[1].at + 10 /\ sent[3].at = sent[1].at + 26
    /\ sent[1].emit /\ ~sent[2].emit /\ sent[3].emit
    /\ last_joystick_send = sent[3].at

\* C14: a joystick command returns its formatted message, the same message
\* whether or not the throttle let the command be logged.
C14_Step ==
    \A t \in Handlers :
        JoystickStep(t)
          => /\ pc'[t] = "idle"
             /\ ret'[t] = joystick_msg(call'[t].x, call'[t].y)
             /\ ret'[t] \in {"Joystick x=-0.10, y=0.00", "Joystick x=1.20, y=0.00"}

C14_AlwaysAcknowledged == [][C14_Step]_vars

\* A suppressed command has been answered with its message.
C14_Witness ==
    \E t \in Handlers :
        /\ pc[t] = "idle" /\ call[t].op = "direction_ajax"
        /\ Len(sent) = 2 /\ ~sent[2].emit /\ Len(log) = 1
        /\ call[t].x = 1204
        /\ ret[t] = "Joystick x=1.20, y=0.00"

\* ------------------------------------------------------- telemetry decode

\* In this step handler t serves one telemetry poll (the whole request).
FeedStep(t) == Enters(t, "sensor_feed")

\* The line the poll of this step decodes.
LineRead ==
    IF sensor_data.state = "text" THEN sensor_data.line ELSE EmptyLine

\* The last poll is over and read, from a readable file, the line l.
Decoded(l) ==
    /\ \E t \in Handlers : pc[t] = "idle" /\ call[t].op = "sensor_feed"
    /\ read.state = "text" /\ read.line = l

\* Every field of every section of r is empty.
AllEmpty(r) == \A sec \in DOMAIN r : \A f \in DOMAIN r[sec] : r[sec][f] = ""

\* r has the sections secs, each with the fields the program declares.
HasShape(r, secs) ==
    /\ DOMAIN r = secs
    /\ \A sec \in secs : DOMAIN r[sec] = result_fields(sec)

\* The numbers of the lines as they read with one decimal.
OneDecimal == {"1.2", "0.0", "-0.6", "4.0", "99.4"}

\* What a field can show after decoding line l: nothing, a token of the
\* line (split either way), a number of the line with one decimal, or an
\* ultrasonic reading with its unit.
Shown(l) ==
    {""} \cup {l.tokens[i] : i \in DOMAIN l.tokens}
         \cup {WS_tokens(l)[i] : i \in DOMAIN l.tokens}
         \cup OneDecimal
         \cup {v \o " cm" : v \in OneDecimal \cup {l.ultra[i].val : i \in DOMAIN l.ultra}}

\* C15: decode is total: for every line (empty, cut short, with a "|" part,
\* with unknown labels or values that are not numbers) the poll answers with
\* a snapshot of the program's shape and raises nothing, and every field is
\* empty or shows something the line holds.
C15_Step ==
    \A t \in Handlers :
        FeedStep(t)
          => /\ pc'[t] = "idle" /\ ret'[t] = "snapshot"
             /\ HasShape(snapshot', result_sections(app))
             /\ \A sec \in DOMAIN snapshot' : \A f \in DOMAIN snapshot'[sec] :
                    snapshot'[sec][f] \in Shown(LineRead)

C15_DecodeTotal == [][C15_Step]_vars

\* A line with a value that is not a number and an unknown label has been
\* decoded: the value went through and the fields after the label are empty.
C15_Witness ==
    /\ \E t \in Handlers : pc[t] = "idle" /\ call[t].op = "sensor_feed"
    /\ app = "testweb"
    /\ read.state = "text"
    /\ Len(read.line.tokens) = 7
    /\ read.line.tokens[3] = "abc" /\ read.line.tokens[4] = "Bogus"
    /\ snapshot["IMU1"]["Yaw"] = "abc"
    /\ snapshot["IMU1"]["Pitch Rate"] = ""

\* C16: decode of the empty line returns a snapshot whose every field of
\* every section is empty.
C16_Step ==
    \A t \in Handlers :
        (FeedStep(t) /\ sensor_data.state = "text" /\ sensor_data.line = EmptyLine)
          => /\ DOMAIN snapshot' # {}
             /\ AllEmpty(snapshot')

C16_EmptyLaw == [][C16_Step]_vars

C16_Witness ==
    /\ \E t \in Handlers : pc[t] = "idle" /\ call[t].op = "sensor_feed"
    /\ read.state = "text" /\ read.line = EmptyLine
    /\ DOMAIN snapshot # {}
    /\ AllEmpty(snapshot)

GroupOf(sec, f) == IF sec = "IMU1" /\ f = "Time" THEN "Time" ELSE sec

\* The IMU1 group, the IMU2 pairs without the "IMU2" marker, and the linear
\* velocity group.
NoImu2Marker ==
    [tokens |-> GroupTokens("testweb", "IMU1", 6)
                  \o Tail(GroupTokens("testweb", "IMU2", 6))
                  \o GroupTokens("testweb", "IMU1Linear", 6),
     ultra |-> <<>>]

\* C18: when a line lacks one expected group, the fields of that group are
\* empty and every other field has the value it has when the line is
\* complete; when only the "IMU2" marker is absent, the IMU1 fields keep
\* their values, the IMU2 fields are empty and the linear velocity group
\* still decodes.
C18_PartialFill ==
    /\ \A k \in DOMAIN Groups :
         Decoded(Line(app, {Groups[k]}, <<>>))
           => \A sec \in DOMAIN snapshot : \A f \in DOMAIN snapshot[sec] :
                  snapshot[sec][f] =
                      IF GroupOf(sec, f) = Groups[k] THEN ""
                      ELSE parse_sensor_line(app, Line(app, {}, <<>>))[sec][f]
    /\ (app = "testweb" /\ Decoded(NoImu2Marker))
           => /\ \A f \in DOMAIN snapshot["IMU2"] :
                    /\ snapshot["IMU1"][f] = "1.2"
                    /\ snapshot["IMU2"][f] = ""
              /\ \A f \in DOMAIN snapshot["IMU1Linear"] :
                    snapshot["IMU1Linear"][f] = "-0.6"

\* C19: under the one-decimal policy (testweb.py) a numeric token is shown
\* with exactly one decimal, "1.23456" as "1.2"; under the two-significant-
\* figure policy "1.23456" is shown as "1.2" and "0.01234" as "0.012".
C19_NumericFormat ==
    /\ (app = "testweb" /\ Decoded(Line("testweb", {}, <<>>)))
         => /\ \A f \in DOMAIN snapshot["IMU2"] :
                  /\ snapshot["IMU1"][f] = "1.2"
                  /\ snapshot["IMU2"][f] = "0.0"
            /\ \A f \in DOMAIN snapshot["IMU1Linear"] : snapshot["IMU1Linear"][f] = "-0.6"
            /\ snapshot["EncoderL"]["Speed"] = "4.0"
            /\ snapshot["EncoderR"]["Speed"] = "0.0"
    /\ fmt_sig2("1.23456") = "1.2"
    /\ fmt_sig2("0.01234") = "0.012"

C19_Witness ==
    /\ app = "testweb"
    /\ Decoded(Line("testweb", {}, <<>>))
    /\ snapshot["IMU1"]["Yaw"] = "1.2"
    /\ fmt_sig2("1.23456") = "1.2"

\* C20: when sensor_data.txt is missing, unreadable or empty, the poll
\* answers with the all-empty snapshot and raises nothing.
C20_Step ==
    \A t \in Handlers :
        (/\ FeedStep(t)
         /\ \/ sensor_data.state \in {"missing", "unreadable"}
            \/ sensor_data.line = EmptyLine)
          => /\ pc'[t] = "idle" /\ ret'[t] = "snapshot"
             /\ HasShape(snapshot', result_sections(app))
             /\ AllEmpty(snapshot')

C20_NoSourceEmptySnapshot == [][C20_Step]_vars

C20_Witness ==
    \E t \in Handlers :
        /\ pc[t] = "idle" /\ call[t].op = "sensor_feed"
        /\ ret[t] = "snapshot"
        /\ read.state = "unreadable"
        /\ DOMAIN snapshot # {}
        /\ AllEmpty(snapshot)

\* ---------------------------------------------------- failure propagation

\* C21: no failure inside start, stop, isRunning, the telemetry poll or the
\* event logging leaves the operation as an exception: every finished call
\* has returned a value.
C21_NothingRaised ==
    \A t \in Handlers : pc[t] = "idle" => ret[t] # "raised"

\* C22: with joystick commands handled by concurrent handlers, any two
\* logged commands were taken at least 0.25 s apart.
C22_LoggedSamplesApart ==
    \A i, j \in DOMAIN sent :
        (i < j /\ sent[i].emit /\ sent[j].emit)
          => \/ sent[j].at - sent[i].at >= 25
             \/ sent[i].at - sent[j].at >= 25

\* -------------------------------------------------- supervisor lifecycle

\* C23: when a stop and a start of one name by different handlers interleave
\* and both are over, the live process the start spawned is the one the
\* handle of the name records.
C23_StartSurvivesStop ==
    \A t, u \in Handlers :
        (/\ t # u
         /\ pc[t] = "idle" /\ pc[u] = "idle"
         /\ call[t].op = "stop" /\ sig[t] = "sent"
         /\ call[u].op = "start" /\ call[u].name = call[t].name
         /\ proc[u] # None
         /\ procs[proc[u]].alive)
          => HandleOf(call[u].name) = proc[u]

\* C24 (as stated): the handle of a name is cleared by stop and when an
\* isRunning or stop call finds that the child exited on its own: a name
\* observed as Stopped keeps no handle.
C24_StoppedKeepsNoHandle ==
    \A t \in Handlers :
        (/\ pc[t] = "idle" /\ call[t].name \in RouteNames
         /\ \/ call[t].op = "stop"
            \/ call[t].op = "isRunning" /\ ret[t] = "False")
          => HandleOf(call[t].name) = None

\* C24 (amended): a successful start records the process it spawned as the
\* handle of the name; after a stop, or an isRunning that answered False,
\* the name has no handle or the stale handle of a child that has exited
\* (a stop clears the handle only when it found the child running).
C24_HandleLifecycle ==
    \A t \in Handlers :
        (pc[t] = "idle" /\ call[t].name \in RouteNames)
          => /\ (call[t].op = "start" /\ ret[t] = "True" /\ proc[t] # None)
                  => HandleOf(call[t].name) = proc[t]
             /\ (call[t].op = "stop" \/ (call[t].op = "isRunning" /\ ret[t] = "False"))
                  => \/ HandleOf(call[t].name) = None
                     \/ ~procs[HandleOf(call[t].name)].alive

\* A stop has met a child that exited on its own: it sent no signal and the
\* stale handle is still recorded.
C24_Witness ==
    \E t \in Handlers :
        /\ pc[t] = "idle" /\ call[t].op = "stop" /\ sig[t] = "-"
        /\ HandleOf(call[t].name) # None
        /\ ~procs[HandleOf(call[t].name)].alive

\* The handle of n is that of a child that has exited.
Stale(n) == HandleOf(n) # None /\ ~procs[HandleOf(n)].alive

\* C25: when the child of a Running name exits on its own the supervisor
\* does nothing (handles and log stay as they are); the next isRunning of
\* the name returns False; the next start of the name goes on to spawn, the
\* process it spawns is a fresh one, and when the start returns with that
\* process alive the handle records it and the result is True.
C25_Step ==
    /\ (pc' = pc /\ \E p \in DOMAIN procs : procs[p].alive /\ ~procs'[p].alive)
         => (handles' = handles /\ log' = log)
    /\ \A t \in Handlers :
         /\ (Enters(t, "isRunning") /\ Stale(call'[t].name))
              => (pc'[t] = "idle" /\ ret'[t] = "False" /\ handles' = handles)
         /\ (Enters(t, "start") /\ Stale(call'[t].name))
              => (pc'[t] # "idle" /\ handles' = handles)
         /\ (Moves(t, "start") /\ procs' # procs)
              => /\ proc'[t] \notin DOMAIN procs
                 /\ procs'[proc'[t]] = [name |-> call[t].name, alive |-> TRUE]
         /\ (Returns(t, "start") /\ proc[t] # None /\ procs[proc[t]].alive)
              => (ret'[t] = "True" /\ HandleOf(call[t].name)' = proc[t])

C25_SelfExitThenRestart == [][C25_Step]_vars

\* The only two calls were starts of one name whose first child exited on
\* its own: the second start returned True and the handle records the
\* fresh, live process.
C25_Witness ==
    \E t \in Handlers :
        /\ calls[1] + calls[2] = 2
        /\ pc[t] = "idle" /\ call[t].op = "start" /\ ret[t] = "True"
        /\ Len(procs) = 2
        /\ procs[1].name = call[t].name /\ ~procs[1].alive
        /\ procs[2].name = call[t].name /\ procs[2].alive
        /\ HandleOf(call[t].name) = 2

\* ------------------------------------------------------- cursor matching

\* The labels program a expects in IMU group sec, in their fixed order.
ExpectedLabels(a, sec) ==
    IF a = "Webserver" THEN imu_fields
    ELSE IF sec = "IMU1" THEN Imu1Labels("testweb") ELSE Imu2Labels("testweb")

\* The field program a fills from label lab of IMU group sec.
TargetField(a, sec, lab) ==
    IF a = "Webserver" THEN lab
    ELSE IF sec = "IMU1" THEN imu1_map[lab] ELSE imu2_map[lab]

\* The tokens program a splits the line into.
TokensOf(a, line) == IF a = "Webserver" THEN WS_tokens(line) ELSE line.tokens

\* The cursor of program a where the pair loop of IMU group sec begins and
\* where it ends; ran tells whether the loop was reached at all.
ImuLoop(a, line, sec) ==
    LET tokens == TokensOf(a, line)
        s1 == read_time(tokens, Cursor(0, result(a)))
    IN  IF a = "Webserver"
          THEN LET e1 == WS_marker(tokens, s1, "IMU1")
                   x1 == WS_imu_for(tokens, e1, "IMU1", Len(imu_fields))
                   e2 == WS_marker(tokens, x1, "IMU2")
                   x2 == WS_imu_for(tokens, e2, "IMU2", Len(imu_fields))
               IN  IF sec = "IMU1" THEN [ran |-> TRUE, entry |-> e1, exit |-> x1]
                   ELSE [ran |-> TRUE, entry |-> e2, exit |-> x2]
          ELSE LET m1 == s1.idx < Len(tokens) /\ tokens[s1.idx + 1] = "IMU1"
                   x1 == TW_imu_group(tokens, s1, "IMU1", "IMU1", imu1_map)
                   m2 == x1.idx < Len(tokens) /\ tokens[x1.idx + 1] = "IMU2"
                   x2 == TW_imu_group(tokens, x1, "IMU2", "IMU2", imu2_map)
               IN  IF sec = "IMU1"
                     THEN [ran |-> m1, entry |-> Cursor(s1.idx + 1, s1.res), exit |-> x1]
                     ELSE [ran |-> m2, entry |-> Cursor(x1.idx + 1, x1.res), exit |-> x2]

\* How many of the labels k, k+1, ... stand at the cursor idx one after the
\* other, each followed by its value.
RECURSIVE InOrder(_, _, _, _)
InOrder(tokens, idx, labels, k) ==
    IF k <= Len(labels) /\ idx + 1 < Len(tokens) /\ tokens[idx + 1] = labels[k]
      THEN 1 + InOrder(tokens, idx + 2, labels, k + 1)
      ELSE 0

\* C26: within an IMU group the (label, field) pairs are matched in their
\* fixed order, one at a time: the cursor advances by one pair, and the
\* value is written, only while the token at the cursor is the next expected
\* label; at the first mismatch the remaining fields of the group stay empty
\* and the cursor is left at that token.
C26_OrderedMatch ==
    (\E t \in Handlers : pc[t] = "idle" /\ call[t].op = "sensor_feed")
      /\ read.state = "text"
    => \A sec \in {"IMU1", "IMU2"} :
         LET tokens == TokensOf(app, read.line)
             labels == ExpectedLabels(app, sec)
             loop == ImuLoop(app, read.line, sec)
             n == InOrder(tokens, loop.entry.idx, labels, 1)
         IN  loop.ran
               => /\ loop.exit.idx = loop.entry.idx + 2 * n
                  /\ \A k \in DOMAIN labels :
                       LET f == TargetField(app, sec, labels[k])
                       IN  IF k <= n THEN snapshot[sec][f] # ""
                           ELSE snapshot[sec][f] = ""

\* The fields that show a number: every field but the time of day and the
\* encoder directions (the ultrasonic fields show a number with its unit).
NumericFields(sec) ==
    result_fields(sec) \ {"Time", "Direction", "Ultrasonic Right", "Ultrasonic Left"}

\* The line of the program's own dialect with "abc" for every number.
AbcLine == [tokens |-> NotNumbers(MainTokens(app, {}, Len(Groups))), ultra |-> <<>>]

\* C27: a value token that is not a number is written to its field as it
\* is, neither dropped nor replaced by the empty value: fmt returns such a
\* token unchanged, and the line with "abc" for every number decodes to
\* "abc" in every numeric field; an ultrasonic reading that is not a number
\* is shown as it is before its unit.
C27_NonNumericUnchanged ==
    /\ \A l \in Lines : \A i \in DOMAIN l.tokens :
           l.tokens[i] \notin DOMAIN float => fmt(l.tokens[i]) = l.tokens[i]
    /\ Decoded(AbcLine)
         => \A sec \in DOMAIN snapshot : \A f \in NumericFields(sec) :
                snapshot[sec][f] = "abc"
    /\ (app = "testweb" /\ \E l \in Lines :
            /\ Decoded(l)
            /\ \E i \in DOMAIN l.ultra : l.ultra[i] = [side |-> "Left", val |-> "abc"])
         => snapshot["Extra"]["Ultrasonic Left"] = "abc cm"

\* The line with "abc" for every number has been decoded by testweb.py.
C27_Witness ==
    /\ app = "testweb"
    /\ Decoded(AbcLine)
    /\ snapshot["IMU1"]["Yaw"] = "abc"
    /\ snapshot["IMU2"]["Roll Rate"] = "abc"
    /\ snapshot["Extra"]["Pendulum Angle"] = "abc"
    /\ snapshot["EncoderR"]["Speed"] = "abc"

\* The trailing part with a numeric right reading and no left reading.
BothReadings ==
    <<[side |-> "Right", val |-> "99.4"], [side |-> "Left", val |-> "---"]>>

\* The two fields filled from the trailing part of the line.
UltrasonicFields == {"Ultrasonic Right", "Ultrasonic Left"}

\* C28: when the line has a trailing part after a "|", each ultrasonic
\* reading is the text between its marker and "cm": the numeric reading
\* 99.4 is shown as "99.4 cm", the sentinel "---" as "--- cm", and every
\* field of the main section has the value it has when the line ends before
\* the "|".
C28_PipeSection ==
    \A d \in Dialects, out \in Outs :
        Decoded(Line(d, out, BothReadings))
          => /\ "Extra" \in DOMAIN snapshot
             /\ snapshot["Extra"]["Ultrasonic Right"] = "99.4 cm"
             /\ snapshot["Extra"]["Ultrasonic Left"] = "--- cm"
             /\ \A sec \in DOMAIN snapshot : \A f \in DOMAIN snapshot[sec] \ UltrasonicFields :
                    snapshot[sec][f] = parse_sensor_line(app, Line(d, out, <<>>))[sec][f]

\* ------------------------------------------------------ independence

\* In this step handler t is at work on a start or a stop of name n.
WorksOn(t, n) ==
    \E op \in {"start", "stop"} :
        \/ Enters(t, op) /\ call'[t].name = n
        \/ Moves(t, op) /\ call[t].name = n

\* C29: a step of start(name) or stop(name) changes only the handle of
\* name: the handle and the live processes of every other name are as
\* before, so the names can be started and stopped independently.
C29_Step ==
    \A t \in Handlers : \A n \in AllNames :
        WorksOn(t, n)
          => \A m \in PROGRAMS \ {n} :
                 /\ HandleOf(m)' = HandleOf(m)
                 /\ LiveOf(m)' = LiveOf(m)

C29_OnlyOwnHandle == [][C29_Step]_vars

\* One name has been started and stopped while the other name, started
\* before, is still recorded and alive.
C29_Witness ==
    \E t \in Handlers : \E m \in PROGRAMS \ {call[t].name} :
        /\ pc[t] = "idle" /\ call[t].op = "stop" /\ sig[t] = "sent"
        /\ HandleOf(call[t].name) = None
        /\ LiveOf(call[t].name) = {}
        /\ RecordedAlive(m)

\* ------------------------------------------------------ the cursor's path

\* The cursor of testweb.py after each stage of the decode of line, in the
\* order of the code.
TW_trace(line) ==
    LET tokens == line.tokens
        s0  == Cursor(0, result("testweb"))
        s1  == read_time(tokens, s0)
        s2  == TW_imu_group(tokens, s1, "IMU1", "IMU1", imu1_map)
        s3  == TW_imu_group(tokens, s2, "IMU2", "IMU2", imu2_map)
        s4  == TW_value(tokens, s3, "IMU1 Linear Velocity", "IMU1Linear", "Linear Velocity")
        s5  == TW_value(tokens, s4, "IMU1's X-velocity", "IMU1Linear", "X velocity")
        s6  == TW_value(tokens, s5, "IMU1's Y-velocity", "IMU1Linear", "Y velocity")
        s7  == TW_value(tokens, s6, "Robot Yaw Rate", "Extra", "Robot Yaw Rate")
        s8  == TW_value(tokens, s7, "Pendulum Angular Velocity", "Extra", "Pendulum Angular Velocity")
        s9  == TW_value(tokens, s8, "Pendulum Angle", "Extra", "Pendulum Angle")
        s10 == TW_value(tokens, s9, "Pendulum Angle (deg)", "Extra", "Pendulum Angle Deg")
        s11 == TW_encoder(tokens, s10, "EncoderL")
        s12 == TW_encoder(tokens, s11, "EncoderR")
    IN  <<s0, s1, s2, s3, s4, s5, s6, s7, s8, s9, s10, s11, s12>>

\* The cursor of Webserver.py after each stage, and after each round of its
\* two loops over imu_fields.
WS_trace(line) ==
    LET tokens == WS_tokens(line)
        s0 == Cursor(0, result("Webserver"))
        s1 == read_time(tokens, s0)
        m1 == WS_marker(tokens, s1, "IMU1")
        r1 == [k \in 1..Len(imu_fields) |-> WS_imu_for(tokens, m1, "IMU1", k)]
        m2 == WS_marker(tokens, r1[Len(imu_fields)], "IMU2")
        r2 == [k \in 1..Len(imu_fields) |-> WS_imu_for(tokens, m2, "IMU2", k)]
        s4 == WS_value(tokens, r2[Len(imu_fields)], "IMU1 Linear Velocity", "IMU1Linear", "Linear Velocity")
        s5 == WS_value(tokens, s4, "IMU1's X-Velocity", "IMU1Linear", "X velocity")
        s6 == WS_value(tokens, s5, "IMU1's Y-Velocity", "IMU1Linear", "Y velocity")
        s7 == WS_encoder(tokens, s6, "EncoderL")
        s8 == WS_encoder(tokens, s7, "EncoderR")
    IN  <<s0, s1, m1>> \o r1 \o <<m2>> \o r2 \o <<s4, s5, s6, s7, s8>>

CursorTrace(a, line) == IF a = "testweb" THEN TW_trace(line) ELSE WS_trace(line)

\* The snapshot is what the path tr over line yields: the result at its end,
\* with, in testweb.py, the ultrasonic fields filled from the trailing part.
Yields(tr, line) ==
    LET r == IF app = "testweb" THEN TW_ultrasonic(line.ultra, tr[Len(tr)].res)
             ELSE tr[Len(tr)].res
    IN  /\ DOMAIN snapshot = DOMAIN r
        /\ \A sec \in DOMAIN r :
               /\ DOMAIN snapshot[sec] = DOMAIN r[sec]
               /\ \A f \in DOMAIN r[sec] : snapshot[sec][f] = r[sec][f]

\* The stage from cursor s to cursor u has written nothing.
NothingWritten(s, u) ==
    \A sec \in DOMAIN s.res : \A f \in DOMAIN s.res[sec] : u.res[sec][f] = s.res[sec][f]

\* C30: in both parsers the cursor is forward-only over the whole decode of
\* the line read: it starts at the first token and never decreases from one
\* stage (or loop round) of the token walk to the next; and no token is
\* read outside the list: a stage that begins with the cursor at or past
\* the end of the list writes nothing.  The path is the one that yields the
\* snapshot returned.
C30_ForwardOnly ==
    (\E t \in Handlers : pc[t] = "idle" /\ call[t].op = "sensor_feed")
      /\ read.state = "text"
    => LET tr == CursorTrace(app, read.line)
           tokens == TokensOf(app, read.line)
       IN  /\ tr[1].idx = 0
           /\ Yields(tr, read.line)
           /\ \A k \in 1..(Len(tr) - 1) :
                /\ tr[k].idx <= tr[k + 1].idx
                /\ tr[k].idx >= Len(tokens) => NothingWritten(tr[k], tr[k + 1])

\* Webserver.py has decoded a line that ends after its IMU1 pairs: the
\* values are written, the second loop takes the cursor past the end of the
\* list, and every later stage writes nothing.
C30_Witness ==
    /\ app = "Webserver"
    /\ Decoded([tokens |-> <<"IMU1">> \o Pairs(imu_fields, "abc", 6), ultra |-> <<>>])
    /\ snapshot["IMU1"]["Yaw"] = "abc"
    /\ LET tr == CursorTrace(app, read.line)
           tokens == TokensOf(app, read.line)
       IN  /\ Yields(tr, read.line)
           /\ tr[Len(tr)].idx > Len(tokens)
           /\ \E k \in 1..(Len(tr) - 1) :
                 tr[k].idx > Len(tokens) /\ NothingWritten(tr[k], tr[k + 1])

====
